---- MODULE Spec2Model ----
(***************************************************************************)
(* The three Express servers of Blog_backend as one state machine.        *)
(*                                                                         *)
(*   "render"  : src/backend/index.js                                      *)
(*   "railway" : src/unnamed/part_000, lines 1-278                         *)
(*   "basic"   : src/unnamed/part_000, lines 279-348                       *)
(*                                                                         *)
(* Node.js runs one callback at a time, so an action is one callback run   *)
(* to completion: the arrival of a request's headers (CORS, and for a GET  *)
(* the whole pipeline), the end of its body (JSON parser, rate limiter and *)
(* the route handler up to its await), and the settling of the provider's  *)
(* promise (the rest of the handler, or its catch block).                  *)
(***************************************************************************)
EXTENDS Naturals, FiniteSets

VARIABLES
    variant,         \* which server file is running
    isProduction,    \* process.env.NODE_ENV === 'production'
    apiKeySet,       \* process.env.CEREBRAS_API_KEY is set
    phase,           \* "listening" | "exited" (process.exit(1) at start-up)
    client,          \* TRUE iff the module-level `client` is a Cerebras client
    allowedOrigins,  \* the allow-list array, as a set
    hits,            \* the limiter's MemoryStore: client address -> hit count
    started,         \* history: provider calls started per address in this
                     \* window of the limiter
    reqs             \* connection slot -> the request being served on it

vars == <<variant, isProduction, apiKeySet, phase, client, allowedOrigins,
          hits, started, reqs>>

(***************************************************************************)
(* Bounds of the model.                                                    *)
(***************************************************************************)
MaxInFlight == 2    \* connection slots (requests served concurrently)
MaxCounted == 2     \* limiter hits per window when every input is explored
MaxOver == 1        \* requests explored beyond the limiter's maximum

Slots == 1..MaxInFlight

(***************************************************************************)
(* JavaScript values.  A string is kept as the lengths of its leading      *)
(* whitespace, of its core (first to last non-whitespace character) and of *)
(* its trailing whitespace.                                                *)
(***************************************************************************)
Undefined == [t |-> "undefined", n |-> 0, lead |-> 0, core |-> 0, trail |-> 0]

Num(k) == [t |-> "number", n |-> k, lead |-> 0, core |-> 0, trail |-> 0]

Str(l, c, r) == [t |-> "string", n |-> 0, lead |-> l, core |-> c, trail |-> r]

Length(v) == v.lead + v.core + v.trail

Trim(v) == [v EXCEPT !.lead = 0, !.trail = 0]

TypeOf(v) == v.t

\* !v
Falsy(v) ==
    \/ v.t = "undefined"
    \/ v.t = "number" /\ v.n = 0
    \/ v.t = "string" /\ Length(v) = 0

\* the length of `${v}`
TemplateLength(v) ==
    CASE v.t = "undefined" -> 9
      [] v.t = "number" -> 1
      [] OTHER -> Length(v)

(***************************************************************************)
(* Start-up configuration.                                                 *)
(***************************************************************************)
Variants == {"render", "railway", "basic"}

NoOrigin == ""      \* the request carries no Origin header

AllowedOriginsRender ==
    {"http://localhost:5173", "http://localhost:5174", "http://localhost:3000",
     "https://blog-backend-6-k4g8.onrender.com"}

AllowedOriginsRailway(production) ==
    (IF production
        THEN {"https://your-frontend-domain.com",
              "https://www.your-frontend-domain.com"}
        ELSE {"http://localhost:5173", "http://localhost:3000",
              "http://localhost:5174"})
    \cup {"https://blogbackend-production-7dfc.up.railway.app"}

\* "basic" calls cors() with no options and keeps no list
AllowedOriginsOf(v, production) ==
    CASE v = "render" -> AllowedOriginsRender
      [] v = "railway" -> AllowedOriginsRailway(production)
      [] OTHER -> {}

\* railway: if (!process.env.CEREBRAS_API_KEY) { if (isProduction) process.exit(1) }
ExitsAtStartup(v, production, key) == v = "railway" /\ ~key /\ production

\* render, railway: client is set only when the key is; basic: always constructed
ClientOf(v, key) == IF v = "basic" THEN TRUE ELSE key

HasLimiter == variant \in {"render", "railway"}

MaxProduction == 50

MaxDevelopment == 100

\* max: isProduction ? 50 : 100
LimiterMax == IF isProduction THEN MaxProduction ELSE MaxDevelopment

\* the limiter mounted with app.use(limiter), on every path
LimiterAppliesEverywhere(path) == TRUE

\* app.use('/askAi', limiter)
LimiterApplies(path) == path = "/askAi"

\* a limiter that rejects the request that reaches max
OverLimitInclusive(total) == total >= LimiterMax

\* a limiter that lets one request past max through
OverLimitLate(total) == total > LimiterMax + 1

\* express-rate-limit rejects once the hit count of the key exceeds max
OverLimit(total) == total > LimiterMax

(***************************************************************************)
(* Responses.                                                              *)
(***************************************************************************)
Absent == "absent"

NoRes ==
    [status |-> 0, kind |-> "none", success |-> Absent, error |-> Absent,
     hasData |-> FALSE, text |-> Undefined, by |-> "none"]

\* res.status(status).json({success, error})
Failure(status, success, error, by) ==
    [status |-> status, kind |-> "json", success |-> success, error |-> error,
     hasData |-> FALSE, text |-> Undefined, by |-> by]

\* res.json({success: true, data: {text}})
Success(text, by) ==
    [status |-> 200, kind |-> "json", success |-> "true", error |-> Absent,
     hasData |-> TRUE, text |-> text, by |-> by]

\* a JSON body without the envelope's fields (health)
Plain(status, by) ==
    [status |-> status, kind |-> "json", success |-> Absent, error |-> Absent,
     hasData |-> FALSE, text |-> Undefined, by |-> by]

\* Express's own answer (no JSON): its final handler
Html(status, by) ==
    [status |-> status, kind |-> "html", success |-> Absent, error |-> Absent,
     hasData |-> FALSE, text |-> Undefined, by |-> by]

\* an Error object: its name and its status property (0: undefined)
Err(name, status) == [name |-> name, status |-> status]

(***************************************************************************)
(* CORS.  The origin callback answers callback(null, true) or              *)
(* callback(new Error(...), false); on an error the cors middleware calls  *)
(* next(err) and every later non-error middleware and route is skipped.    *)
(***************************************************************************)
\* render: origin callback; "" is the Error, "allow" the echo of the origin
CorsRender(origin) ==
    IF origin = NoOrigin THEN [allow |-> TRUE, err |-> Err("", 0)]
    ELSE IF origin \in allowedOrigins THEN [allow |-> TRUE, err |-> Err("", 0)]
    ELSE [allow |-> FALSE, err |-> Err("Error", 0)]

\* railway: corsOptions.origin
CorsRailway(origin) ==
    IF origin = NoOrigin THEN [allow |-> TRUE, err |-> Err("", 0)]
    ELSE IF origin \notin allowedOrigins
        THEN [allow |-> FALSE, err |-> Err("Error", 0)]
    ELSE [allow |-> TRUE, err |-> Err("", 0)]

\* basic: app.use(cors()) allows every origin
CorsBasic(origin) == [allow |-> TRUE, err |-> Err("", 0)]

CorsCheck(origin) ==
    CASE variant = "render" -> CorsRender(origin)
      [] variant = "railway" -> CorsRailway(origin)
      [] OTHER -> CorsBasic(origin)

\* Access-Control-Allow-Origin of an allowed request: the request's origin
\* when the callback said true (no header without an Origin), "*" for cors()
AllowOriginHeader(origin) ==
    IF variant = "basic" THEN "*"
    ELSE IF origin = NoOrigin THEN Absent ELSE origin

\* railway: the error-handling middleware
ErrorMiddlewareRailway(err) ==
    IF err.name = "CorsError"
        THEN Failure(403, "false", "CORS Error", "error")
    ELSE Failure(IF err.status # 0 THEN err.status ELSE 500, "false",
                 "Internal Server Error", "error")

\* render registers no error middleware: Express's final handler answers
\* err.status, or 500 without one, with no JSON body
ErrorResponse(err) ==
    IF variant = "railway" THEN ErrorMiddlewareRailway(err)
    ELSE Html(IF err.status # 0 THEN err.status ELSE 500, "error")

(***************************************************************************)
(* The limiter's rejection (its `message` option, status 429).             *)
(***************************************************************************)
LimiterResponse ==
    IF variant = "render"
        THEN Failure(429, "false", "Too many requests", "limiter")
    ELSE Failure(429, "false",
                 "Too many requests from this IP, please try again later.",
                 "limiter")

(***************************************************************************)
(* POST /askAi up to the provider call.  A decision is either the response *)
(* sent, or call = TRUE: client.chat.completions.create is invoked.        *)
(***************************************************************************)
MaxMessageLength == 5000

MockTemplateLength == 182

Reply(res) == [call |-> FALSE, res |-> res]

CallProvider == [call |-> TRUE, res |-> NoRes]

\* the text of render's test mode, a template that holds the message twice
MockText(message) ==
    Str(0, MockTemplateLength + 2 * TemplateLength(message), 0)

\* !message || typeof message !== 'string' || message.trim().length === 0
MessageMissing(message) ==
    \/ Falsy(message)
    \/ TypeOf(message) # "string"
    \/ Length(Trim(message)) = 0

\* render: app.post('/askAi') before the await
AskAiRender(message) ==
    IF ~client THEN Reply(Success(MockText(message), "handler"))
    ELSE IF MessageMissing(message)
        THEN Reply(Failure(400, "false", "Message is required", "handler"))
    ELSE CallProvider

\* railway: app.post('/askAi') before the await
AskAiRailway(message) ==
    IF ~client
        THEN Reply(Failure(500, "false", "AI service is not configured", "handler"))
    ELSE IF MessageMissing(message)
        THEN Reply(Failure(400, "false",
                   "Message is required and must be a non-empty string", "handler"))
    ELSE IF Length(message) > MaxMessageLength
        THEN Reply(Failure(400, "false",
                   "Message too long. Maximum 5000 characters.", "handler"))
    ELSE CallProvider

\* basic: app.post('/askAi') before the await; its 400 body is {error} alone
AskAiBasic(message) ==
    IF Falsy(message)
        THEN Reply(Failure(400, Absent, "Message is required", "handler"))
    ELSE CallProvider

AskAi(message) ==
    CASE variant = "render" -> AskAiRender(message)
      [] variant = "railway" -> AskAiRailway(message)
      [] OTHER -> AskAiBasic(message)

(***************************************************************************)
(* The provider's answer.  A completion is its `choices` ("missing": the   *)
(* property is undefined, "empty": [], "one": one choice with a message)   *)
(* and the content of the first choice's message; a rejection is an error  *)
(* with a status (0: none, a connection error).                            *)
(***************************************************************************)
Completion(choices, content) ==
    [ok |-> TRUE, choices |-> choices, content |-> content, err |-> Err("", 0)]

Rejection(status) ==
    [ok |-> FALSE, choices |-> "missing", content |-> Undefined,
     err |-> Err("APIError", status)]

NoOutcome ==
    [ok |-> FALSE, choices |-> "missing", content |-> Undefined,
     err |-> Err("", 0)]

\* chatCompletion?.choices[0]?.message?.content: indexing an undefined
\* `choices` throws a TypeError
ExtractText(completion) ==
    IF completion.choices = "missing"
        THEN [threw |-> TRUE, value |-> Undefined]
    ELSE IF completion.choices = "empty"
        THEN [threw |-> FALSE, value |-> Undefined]
    ELSE [threw |-> FALSE, value |-> completion.content]

\* render: the catch block
CatchRender(error) == Failure(500, "false", "AI service error", "handler")

\* railway: the catch block
CatchRailway(error) ==
    IF error.status = 401
        THEN Failure(401, "false", "Invalid API key", "handler")
    ELSE IF error.status = 429
        THEN Failure(429, "false",
                     "Rate limit exceeded. Please try again later.", "handler")
    ELSE Failure(500, "false", "Failed to get response from AI", "handler")

\* basic: the catch block
CatchBasic(error) ==
    Failure(500, "false", "Failed to get response from AI", "handler")

\* a handler that relays content.trim() in place of content
AfterAwaitRenderTrimmed(completion) ==
    LET x == ExtractText(completion) IN
    IF x.threw THEN [threw |-> TRUE, err |-> Err("TypeError", 0), res |-> NoRes]
    ELSE IF Falsy(x.value)
        THEN [threw |-> TRUE, err |-> Err("Error", 0), res |-> NoRes]
    ELSE [threw |-> FALSE, err |-> Err("", 0),
          res |-> Success(Trim(x.value), "handler")]

\* render: the handler after the await resolved
AfterAwaitRender(completion) ==
    LET x == ExtractText(completion) IN
    IF x.threw THEN [threw |-> TRUE, err |-> Err("TypeError", 0), res |-> NoRes]
    ELSE IF Falsy(x.value)
        THEN [threw |-> TRUE, err |-> Err("Error", 0), res |-> NoRes]
    ELSE [threw |-> FALSE, err |-> Err("", 0), res |-> Success(x.value, "handler")]

\* railway: the handler after the await resolved
AfterAwaitRailway(completion) ==
    LET x == ExtractText(completion) IN
    IF x.threw THEN [threw |-> TRUE, err |-> Err("TypeError", 0), res |-> NoRes]
    ELSE IF Falsy(x.value)
        THEN [threw |-> TRUE, err |-> Err("Error", 0), res |-> NoRes]
    ELSE [threw |-> FALSE, err |-> Err("", 0), res |-> Success(x.value, "handler")]

\* basic: the handler after the await resolved; the text is not checked
AfterAwaitBasic(completion) ==
    LET x == ExtractText(completion) IN
    IF x.threw THEN [threw |-> TRUE, err |-> Err("TypeError", 0), res |-> NoRes]
    ELSE [threw |-> FALSE, err |-> Err("", 0), res |-> Success(x.value, "handler")]

Catch(error) ==
    CASE variant = "render" -> CatchRender(error)
      [] variant = "railway" -> CatchRailway(error)
      [] OTHER -> CatchBasic(error)

\* the response of POST /askAi once the provider's promise has settled
Settle(outcome) ==
    IF ~outcome.ok THEN Catch(outcome.err)
    ELSE LET a == CASE variant = "render" -> AfterAwaitRender(outcome)
                    [] variant = "railway" -> AfterAwaitRailway(outcome)
                    [] OTHER -> AfterAwaitBasic(outcome)
         IN IF a.threw THEN Catch(a.err) ELSE a.res

(***************************************************************************)
(* Requests.                                                               *)
(***************************************************************************)
Idle ==
    [pc |-> "idle", addr |-> "", method |-> "", path |-> "", origin |-> NoOrigin,
     message |-> Undefined,
     late |-> FALSE,       \* history: arrived after the limiter had counted max
     counted |-> 0,        \* times the limiter counted this request
     calls |-> 0,          \* provider invocations made for this request
     sent |-> 0,           \* responses sent for this request
     outcome |-> NoOutcome,
     acao |-> Absent,      \* Access-Control-Allow-Origin of the response
     res |-> NoRes]

Respond(r, res) == [r EXCEPT !.pc = "done", !.res = res, !.sent = @ + 1]

\* render, railway: app.get('/health')
Health == Plain(200, "health")

\* the route a request that got past the middleware matches
Route(r) ==
    IF r.method = "POST" /\ r.path = "/askAi" THEN AskAi(r.message)
    ELSE IF r.method = "GET" /\ r.path = "/health" /\ variant # "basic"
        THEN Reply(Health)
    ELSE IF variant = "railway"
        THEN Reply(Failure(404, "false", "Not Found", "router"))
    ELSE Reply(Html(404, "router"))

Init ==
    /\ variant \in Variants
    /\ isProduction \in BOOLEAN
    /\ apiKeySet \in BOOLEAN
    /\ phase = IF ExitsAtStartup(variant, isProduction, apiKeySet)
                  THEN "exited" ELSE "listening"
    /\ client = ClientOf(variant, apiKeySet)
    /\ allowedOrigins = AllowedOriginsOf(variant, isProduction)
    /\ hits = [a \in {} |-> 0]
    /\ started = [a \in {} |-> 0]
    /\ reqs = [s \in Slots |-> Idle]

Config == <<variant, isProduction, apiKeySet, phase, client, allowedOrigins>>

\* the store's count of a key it has not seen is 0
Hits(a) == IF a \in DOMAIN hits THEN hits[a] ELSE 0

Started(a) == IF a \in DOMAIN started THEN started[a] ELSE 0

Put(f, a, v) == [x \in DOMAIN f \cup {a} |-> IF x = a THEN v ELSE f[x]]

(***************************************************************************)
(* The middleware after CORS and the body parser: the limiter where it is  *)
(* mounted, then the route, in one callback.                               *)
(***************************************************************************)
Serve(s, r) ==
    LET limited == HasLimiter /\ LimiterApplies(r.path)
        total == Hits(r.addr) + 1
        r1 == IF limited THEN [r EXCEPT !.counted = @ + 1] ELSE r
    IN /\ hits' = IF limited THEN Put(hits, r.addr, total) ELSE hits
       /\ IF limited /\ OverLimit(total)
            THEN /\ reqs' = [reqs EXCEPT ![s] = Respond(r1, LimiterResponse)]
                 /\ UNCHANGED started
          ELSE LET d == Route(r1) IN
               IF d.call
                 THEN /\ reqs' = [reqs EXCEPT ![s] =
                                    [r1 EXCEPT !.pc = "awaiting", !.calls = @ + 1]]
                      /\ started' = IF limited
                                       THEN Put(started, r.addr, Started(r.addr) + 1)
                                     ELSE started
               ELSE /\ reqs' = [reqs EXCEPT ![s] = Respond(r1, d.res)]
                    /\ UNCHANGED started

\* the headers of a request arrive: CORS, then for a request without a body
\* the rest of the pipeline; a POST waits for its body
Receive(s, addr, method, path, origin, message) ==
    /\ phase = "listening"
    /\ reqs[s].pc = "idle"
    /\ LET c == CorsCheck(origin)
           r0 == [Idle EXCEPT !.addr = addr, !.method = method, !.path = path,
                              !.origin = origin,
                              !.late = /\ HasLimiter
                                       /\ LimiterApplies(path)
                                       /\ Hits(addr) >= LimiterMax]
       IN IF ~c.allow
            THEN /\ reqs' = [reqs EXCEPT ![s] = Respond(r0, ErrorResponse(c.err))]
                 /\ UNCHANGED <<hits, started>>
          ELSE LET r1 == [r0 EXCEPT !.acao = AllowOriginHeader(origin)] IN
               IF method = "POST"
                 THEN /\ reqs' = [reqs EXCEPT ![s] =
                                    [r1 EXCEPT !.pc = "body", !.message = message]]
                      /\ UNCHANGED <<hits, started>>
               ELSE Serve(s, r1)
    /\ UNCHANGED Config

\* express.json() has read the body of a POST
BodyParsed(s) ==
    /\ reqs[s].pc = "body"
    /\ Serve(s, reqs[s])
    /\ UNCHANGED Config

\* the promise of client.chat.completions.create resolves
ProviderResolves(s, completion) ==
    /\ reqs[s].pc = "awaiting"
    /\ completion.ok
    /\ reqs' = [reqs EXCEPT ![s] =
                  Respond([reqs[s] EXCEPT !.outcome = completion], Settle(completion))]
    /\ UNCHANGED <<Config, hits, started>>

\* the promise of client.chat.completions.create rejects
ProviderRejects(s, rejection) ==
    /\ reqs[s].pc = "awaiting"
    /\ ~rejection.ok
    /\ reqs' = [reqs EXCEPT ![s] =
                  Respond([reqs[s] EXCEPT !.outcome = rejection], Settle(rejection))]
    /\ UNCHANGED <<Config, hits, started>>

\* the response is on its way and the connection slot is free again
Close(s) ==
    /\ reqs[s].pc = "done"
    /\ reqs' = [reqs EXCEPT ![s] = Idle]
    /\ UNCHANGED <<Config, hits, started>>

\* windowMs have passed: the store forgets its counts
WindowElapsed ==
    /\ phase = "listening"
    /\ HasLimiter
    /\ hits' = [a \in {} |-> 0]
    /\ started' = [a \in {} |-> 0]
    /\ reqs' = [s \in Slots |-> [reqs[s] EXCEPT !.late = FALSE]]
    /\ UNCHANGED Config

(***************************************************************************)
(* Inputs.                                                                 *)
(***************************************************************************)
Clients == {"203.0.113.7", "198.51.100.9"}

RequestLines == {<<"POST", "/askAi">>, <<"GET", "/health">>}

Origins == {NoOrigin, "http://localhost:5173", "https://evil.example"}

Messages ==
    {Undefined, Num(7), Str(0, 0, 0), Str(3, 0, 0), Str(1, 2, 1),
     Str(0, MaxMessageLength, 0), Str(0, MaxMessageLength + 1, 0)}

T1 == Str(0, 5, 0)

T2 == Str(2, 7, 1)

Completions ==
    {Completion("missing", Undefined), Completion("empty", Undefined),
     Completion("one", Undefined), Completion("one", Str(0, 0, 0)),
     Completion("one", T1), Completion("one", T2)}

Rejections == {Rejection(401), Rejection(429), Rejection(500), Rejection(0)}

\* requests of addr the limiter has counted in this window or is about to
Pending(addr) ==
    Cardinality({s \in Slots : reqs[s].pc = "body" /\ reqs[s].addr = addr})

Budget(addr, method, cap) ==
    method = "POST" /\ HasLimiter => Hits(addr) + Pending(addr) < cap

\* Every kind of request, origin, message and provider answer, one request
\* at a time, from two client addresses.
Next ==
    \/ \E a \in Clients, q \in RequestLines, o \in Origins, m \in Messages :
            /\ Budget(a, q[1], MaxCounted)
            /\ q[1] = "GET" => m = Undefined
            /\ Receive(1, a, q[1], q[2], o, m)
    \/ \E s \in Slots : BodyParsed(s)
    \/ \E s \in Slots, c \in Completions : ProviderResolves(s, c)
    \/ \E s \in Slots, e \in Rejections : ProviderRejects(s, e)
    \/ \E s \in Slots : Close(s)
    \/ WindowElapsed

Spec == Init /\ [][Next]_vars

(***************************************************************************)
(* The servers that mount the limiter, driven by one client address up to  *)
(* and past the limiter's maximum, with MaxInFlight requests in flight.    *)
(***************************************************************************)
InitLimiter == Init /\ HasLimiter

NextLimiter ==
    \/ \E s \in Slots, q \in RequestLines,
          o \in {NoOrigin, "https://evil.example"} :
            /\ Budget("203.0.113.7", q[1], LimiterMax + MaxOver)
            /\ Receive(s, "203.0.113.7", q[1], q[2], o,
                       IF q[1] = "GET" THEN Undefined ELSE Str(1, 2, 1))
    \/ \E s \in Slots : BodyParsed(s)
    \/ \E s \in Slots : ProviderResolves(s, Completion("one", T1))
    \/ \E s \in Slots : ProviderRejects(s, Rejection(429))
    \/ \E s \in Slots : Close(s)
    \/ WindowElapsed

SpecLimiter == InitLimiter /\ [][NextLimiter]_vars

(***************************************************************************)
(* Properties.                                                             *)
(***************************************************************************)
IsAskAi(r) == r.method = "POST" /\ r.path = "/askAi"

IsHealth(r) == r.method = "GET" /\ r.path = "/health"

Done(r) == r.pc = "done"

\* the route handler of POST /askAi ran for r
ReachedHandler(r) == IsAskAi(r) /\ (r.pc = "awaiting" \/ r.res.by = "handler")

\* a message that is missing, empty, whitespace-only or not a string
UnusableMessage(m) == m.t # "string" \/ m.core = 0

\* a provider error as the specification maps it to a status
MappedStatus(status) ==
    IF status = 401 THEN 401 ELSE IF status = 429 THEN 429 ELSE 500

\* a completion with no choices, or with undefined or empty content
EmptyCompletion(o) ==
    o.ok /\ (o.choices # "one" \/ o.content.t # "string" \/ Length(o.content) = 0)

OriginPasses(origin) == origin = NoOrigin \/ origin \in allowedOrigins

\* C1 (as claimed, for a configured client): a POST /askAi whose message is
\* missing, empty, whitespace-only or not a string is answered 400 by the
\* handler and the provider is never invoked for it.
C1_UnusableMessageIs400 ==
    \A s \in Slots :
        LET r == reqs[s] IN
        client /\ ReachedHandler(r) /\ UnusableMessage(r.message)
            => r.calls = 0 /\ (Done(r) => r.res.status = 400)

\* C2 (as claimed): on the servers with an allow-list a request whose Origin
\* is not in allowedOrigins is answered 403 and never reaches the provider,
\* and a request whose Origin is in the list gets that origin echoed.
C2_ForeignOriginIs403 ==
    \A s \in Slots :
        LET r == reqs[s] IN
        HasLimiter /\ r.pc # "idle" =>
            /\ ~OriginPasses(r.origin) =>
                   r.calls = 0 /\ (Done(r) => r.res.status = 403)
            /\ r.origin \in allowedOrigins => r.acao = r.origin

\* C4: with a configured client, a POST /askAi whose message is a string,
\* non-empty after trimming and at most 5000 characters long, and for which
\* the provider returns a non-empty text T, is answered 200 with success:true
\* and data.text = T; the provider was invoked exactly once for it, and also
\* exactly once when its call failed.
C4_ProviderTextRelayed ==
    \A s \in Slots :
        LET r == reqs[s] IN
        client /\ IsAskAi(r) /\ ~UnusableMessage(r.message)
               /\ Length(r.message) <= MaxMessageLength =>
            /\ r.pc = "awaiting" => r.calls = 1
            /\ Done(r) /\ r.outcome.ok /\ ~EmptyCompletion(r.outcome) =>
                   /\ r.res.status = 200
                   /\ r.res.kind = "json"
                   /\ r.res.success = "true"
                   /\ r.res.hasData
                   /\ r.res.text = r.outcome.content
                   /\ r.calls = 1
                   /\ r.sent = 1
            /\ Done(r) /\ r.outcome.err.name = "APIError" => r.calls = 1

C4_Witness ==
    \E s \in Slots :
        LET r == reqs[s] IN
        /\ Done(r) /\ IsAskAi(r) /\ client
        /\ r.message = Str(1, 2, 1)
        /\ r.outcome = Completion("one", T2)
        /\ r.res.status = 200 /\ r.res.text = T2 /\ r.calls = 1

\* C5 (as claimed): on render and railway the status of the response to a
\* failed provider call follows the provider's error: 401 for 401, 429 for
\* 429, and 500 for any other.
C5_ProviderErrorStatus ==
    \A s \in Slots :
        LET r == reqs[s] IN
        variant \in {"render", "railway"} /\ Done(r) /\ IsAskAi(r)
            /\ r.outcome.err.name = "APIError"
            => r.res.status = MappedStatus(r.outcome.err.status)

\* C6 (as claimed): on every server a completion without text is answered
\* 500 with success:false, and success:true is never sent with an undefined
\* or empty data.text.
C6_EmptyCompletionIs500 ==
    \A s \in Slots :
        LET r == reqs[s] IN
        Done(r) /\ IsAskAi(r) =>
            /\ EmptyCompletion(r.outcome) =>
                   r.res.status = 500 /\ r.res.success = "false"
            /\ r.res.success = "true" =>
                   r.res.text.t = "string" /\ Length(r.res.text) > 0

\* C7 (as claimed, for a configured client): on render and railway a POST
\* /askAi whose message is longer than 5000 characters is answered 400 and
\* the provider is not invoked for it.
C7_LongMessageIs400 ==
    \A s \in Slots :
        LET r == reqs[s] IN
        variant \in {"render", "railway"} /\ client /\ ReachedHandler(r)
            /\ r.message.t = "string" /\ Length(r.message) > MaxMessageLength
            => r.calls = 0 /\ (Done(r) => r.res.status = 400)

\* C9 (as claimed): a POST /askAi that reached the route handler is answered
\* once, and an answer with a status outside 2xx carries success:false and
\* an error string.
C9_FailureEnvelope ==
    \A s \in Slots :
        LET r == reqs[s] IN
        Done(r) /\ ReachedHandler(r) =>
            /\ r.sent = 1
            /\ r.res.status \notin 200..299 =>
                   r.res.success = "false" /\ r.res.error # Absent

HitsAfter(a) == IF a \in DOMAIN hits' THEN hits'[a] ELSE 0

\* C3 (as claimed): a request to /askAi that arrives when the limiter has
\* already counted max requests of its client address in the current window
\* is answered 429 without a provider call.
C3_RequestPastMaxIs429 ==
    \A s \in Slots :
        LET r == reqs[s] IN
        r.late /\ Done(r) => r.res.status = 429 /\ r.calls = 0

\* C3 (amended): the limiter counts a request to /askAi when it reaches it,
\* after the origin check and the body parser.  A request it counts when it
\* had already counted max requests of that address in the window is answered
\* 429 by the limiter, without a provider call; one it counts earlier is not
\* rejected by the limiter; and a count only ever falls by restarting at 0,
\* when the window has elapsed, so that the next request is accepted again.
C3_LimiterRejectsPastMax ==
    [][ /\ \A s \in Slots :
             reqs[s].pc = "body" /\ reqs'[s].pc # "body" =>
                 LET a == reqs[s].addr
                     r == reqs'[s]
                 IN /\ HitsAfter(a) = Hits(a) + 1
                    /\ r.counted = 1
                    /\ Hits(a) >= LimiterMax =>
                           /\ Done(r) /\ r.res.status = 429
                           /\ r.res.by = "limiter" /\ r.res.success = "false"
                           /\ r.calls = 0
                    /\ Hits(a) < LimiterMax => r.res.by # "limiter"
        /\ \A a \in DOMAIN hits : HitsAfter(a) < hits[a] => HitsAfter(a) = 0
      ]_vars

\* the limiter's 429 is still in its slot, the window has elapsed since, and
\* the next request of the same address has been accepted
C3_Witness ==
    \E s, t \in Slots :
        /\ Done(reqs[s]) /\ reqs[s].res.by = "limiter" /\ reqs[s].res.status = 429
        /\ reqs[t].addr = reqs[s].addr
        /\ reqs[t].counted = 1 /\ ReachedHandler(reqs[t])
        /\ Hits(reqs[t].addr) = 1

\* C8 (as claimed): on render and railway every GET /health is answered 200
\* with a JSON body.
C8_HealthAlways200 ==
    \A s \in Slots :
        LET r == reqs[s] IN
        HasLimiter /\ IsHealth(r) /\ Done(r) =>
            r.res.status = 200 /\ r.res.kind = "json"

\* C8 (amended): on render and railway, once the server listens, every GET
\* /health that passes the origin check (no Origin header, or an allowed
\* one) is answered 200 with a JSON body, with or without a provider client
\* and whatever the limiter's count of the caller; the limiter neither
\* counts nor rejects it.  A server that exited at start-up (railway in
\* production without a key) answers nothing.
C8_HealthPastOriginCheck ==
    /\ \A s \in Slots :
           LET r == reqs[s] IN
           HasLimiter /\ IsHealth(r) /\ Done(r) /\ OriginPasses(r.origin) =>
               /\ r.res.status = 200 /\ r.res.kind = "json"
               /\ r.res.by = "health"
               /\ r.counted = 0
    /\ phase = "exited" => \A s \in Slots : reqs[s] = Idle

\* GET /health answered 200 without a provider client, for a caller whose
\* count is past the limiter's maximum
C8_Witness ==
    \E s \in Slots :
        LET r == reqs[s] IN
        /\ IsHealth(r) /\ Done(r) /\ r.res.status = 200
        /\ ~client
        /\ Hits(r.addr) > LimiterMax

\* C10: on render and railway, in every interleaving of requests of one
\* client address, the route handler of POST /askAi runs only for a request
\* the limiter has counted exactly once, and the provider calls started for
\* the address in one window of the limiter never exceed its maximum.
C10_StartedWithinMax ==
    /\ \A a \in DOMAIN started : started[a] <= LimiterMax
    /\ \A s \in Slots :
           HasLimiter /\ ReachedHandler(reqs[s]) => reqs[s].counted = 1

\* max provider calls were started in the window, one of them is still
\* pending, and a request that arrived meanwhile was rejected
C10_Witness ==
    \E s, t \in Slots :
        /\ reqs[s].pc = "awaiting"
        /\ Started(reqs[s].addr) = LimiterMax
        /\ reqs[t].addr = reqs[s].addr
        /\ Done(reqs[t]) /\ reqs[t].res.by = "limiter"

====
